---------------------------- MODULE Spec2Model ----------------------------
(***************************************************************************)
(* Vehicle traffic API (backend/main.py): the request handlers of the      *)
(* FastAPI application, the SQLAlchemy sessions they open and the queries  *)
(* they run against the table jaloli_thresholds_detections_counts.         *)
(*                                                                         *)
(* Time is counted in whole seconds since 1970-01-01T00:00:00 (naive UTC,  *)
(* as datetime.utcnow()).  The microsecond part of a datetime is dropped:  *)
(* 23:59:59.999999 compares like 23:59:59 against whole-second stamps.     *)
(* Optional[...] parameters are sequences of length 0 (None) or 1.         *)
(* Strings that the code parses are sequences of one-character strings.    *)
(***************************************************************************)
EXTENDS Integers, Sequences, FiniteSets, TLC

VARIABLES store, now, sessions, req

vars == <<store, now, sessions, req>>

-----------------------------------------------------------------------------
(* Program constants *)

\* .limit(60) of both secondly queries
Limit == 60

\* interval_minutes = 10 when the given value is out of range
DefaultInterval == 10

\* INTERVAL '21 hours' of the hourly query
CutoffHours == 21

(* Bounds of the model *)

\* how many batches (single detections, or the burst) the table holds
MaxBatches == 2

\* length of the one-record-per-second burst of camera "A"
BurstLen == 62

\* concurrent requests of the specification SpecPool
MaxClients == 2

-----------------------------------------------------------------------------
(* Optional values and Python truthiness *)

None == <<>>

Some(x) == <<x>>

\* `if camera_id:` : None and the empty string are both false
TruthyStr(opt) == opt # None /\ opt[1] # ""

\* `if start_date:` on a character sequence
TruthySeq(opt) == opt # None /\ opt[1] # <<>>

-----------------------------------------------------------------------------
(* datetime *)

Digits == <<"0", "1", "2", "3", "4", "5", "6", "7", "8", "9">>

IsDigit(c) == \E i \in 1..10 : Digits[i] = c

DigitVal(c) == (CHOOSE i \in 1..10 : Digits[i] = c) - 1

IsLeap(y) == (y % 4 = 0 /\ y % 100 # 0) \/ y % 400 = 0

DaysInMonth(y, m) ==
    IF m = 2 THEN (IF IsLeap(y) THEN 29 ELSE 28)
    ELSE IF m \in {4, 6, 9, 11} THEN 30 ELSE 31

\* days from 1970-01-01 to the civil date y-m-d (proleptic Gregorian)
DaysFromCivil(y, m, d) ==
    LET yy  == IF m <= 2 THEN y - 1 ELSE y
        era == yy \div 400
        yoe == yy - era * 400
        mp  == IF m > 2 THEN m - 3 ELSE m + 9
        doy == ((153 * mp + 2) \div 5) + d - 1
        doe == yoe * 365 + (yoe \div 4) - (yoe \div 100) + doy
    IN  era * 146097 + doe - 719468

\* datetime.fromisoformat on the date-only form YYYY-MM-DD: the instant of
\* that day's midnight, or a ValueError.  (Longer forms, with a time part,
\* are not among the inputs of this model.)
FromIsoFormat(s) ==
    IF /\ Len(s) = 10
       /\ s[5] = "-" /\ s[8] = "-"
       /\ \A i \in {1, 2, 3, 4, 6, 7, 9, 10} : IsDigit(s[i])
    THEN LET y == 1000 * DigitVal(s[1]) + 100 * DigitVal(s[2])
                    + 10 * DigitVal(s[3]) + DigitVal(s[4])
             m == 10 * DigitVal(s[6]) + DigitVal(s[7])
             d == 10 * DigitVal(s[9]) + DigitVal(s[10])
         IN  IF y >= 1 /\ m \in 1..12 /\ d >= 1 /\ d <= DaysInMonth(y, m)
             THEN [ok |-> TRUE, value |-> DaysFromCivil(y, m, d) * 86400]
             ELSE [ok |-> FALSE, value |-> 0]
    ELSE [ok |-> FALSE, value |-> 0]

\* .replace(hour=0, minute=0, second=0, microsecond=0); date_trunc('day', t)
StartOfDay(t) == t - (t % 86400)

\* .replace(hour=23, minute=59, second=59, microsecond=999999)
EndOfDay(t) == StartOfDay(t) + 86399

\* .replace(minute=0, second=0, microsecond=0); date_trunc('hour', t)
StartOfHour(t) == t - (t % 3600)

\* EXTRACT(minute FROM t)
MinuteOf(t) == (t % 3600) \div 60

\* strftime('%H:%M')
StrfHM(t) ==
    LET h == (t % 86400) \div 3600
        m == MinuteOf(t)
    IN  <<Digits[(h \div 10) + 1], Digits[(h % 10) + 1], ":",
          Digits[(m \div 10) + 1], Digits[(m % 10) + 1]>>

-----------------------------------------------------------------------------
(* The table: rows of VehicleCount *)

Row(id, ts, cam, car, bike, truck, bus, auto, total) ==
    [id |-> id, timestamp |-> ts, camera_id |-> cam, car |-> car,
     bike |-> bike, truck |-> truck, bus |-> bus, auto |-> auto,
     total |-> total]

At(day, h, m, s) == day * 86400 + h * 3600 + m * 60 + s

\* The detections an ingestion process may have written: two days
\* (1970-01-02 and 1970-01-03), three camera identifiers (one of them the
\* empty string: the column carries no constraint), stored totals that do
\* and do not equal the sum of the five categories.
Detections ==
    { Row(1,  At(1, 9, 5, 0),    "A", 1, 0, 0, 0, 0, 1),
      Row(2,  At(1, 9, 7, 30),   "A", 2, 1, 0, 0, 1, 5),
      Row(3,  At(1, 9, 7, 30),   "B", 0, 1, 1, 0, 0, 2),
      Row(4,  At(1, 9, 12, 0),   "",  1, 0, 0, 1, 0, 2),
      Row(5,  At(1, 23, 59, 59), "B", 0, 0, 1, 1, 1, 4),
      Row(6,  At(2, 9, 40, 0),   "A", 3, 0, 1, 0, 0, 4),
      Row(7,  At(2, 10, 15, 0),  "B", 1, 1, 0, 0, 0, 2),
      Row(8,  At(2, 10, 29, 30), "",  0, 2, 0, 0, 1, 3),
      Row(9,  At(2, 21, 0, 0),   "A", 1, 0, 0, 1, 0, 2),
      Row(10, At(2, 21, 30, 0),  "B", 2, 0, 0, 0, 1, 3) }

\* One record per second of camera "A", ending at 1970-01-03T10:30:00.
Burst ==
    { Row(100 + i, At(2, 10, 30, 0) - i, "A", 1, 0, 0, 0, 0, 1) :
        i \in 0..(BurstLen - 1) }

Batches == {{d} : d \in Detections} \cup {Burst}

Stores == {UNION B : B \in {C \in SUBSET Batches : Cardinality(C) <= MaxBatches}}

\* The instants at which requests are served: mid-morning and late evening
\* of 1970-01-03.
Clock == {At(2, 10, 30, 0), At(2, 22, 15, 0)}

-----------------------------------------------------------------------------
(* SQL building blocks *)

RECURSIVE SumOf(_, _)
\* the arithmetic sum of column f over the rows S
SumOf(S, f) ==
    IF S = {} THEN 0
    ELSE LET x == CHOOSE y \in S : TRUE
         IN  x[f] + SumOf(S \ {x}, f)

\* SUM(f): NULL (None) over no rows
SqlSum(S, f) == IF S = {} THEN None ELSE Some(SumOf(S, f))

\* COALESCE(v, d); `v or d`; `int(v) if v is not None else d`
Coalesce(opt, d) == IF opt = None THEN d ELSE opt[1]

\* every enumeration of the finite set G
Perms(G) ==
    {p \in [1..Cardinality(G) -> G] : \A i, j \in DOMAIN p : i # j => p[i] # p[j]}

RECURSIVE Ascending(_)
\* ORDER BY timestamp: every sequence of the rows S in non-decreasing
\* timestamp order (SQL leaves the order of equal keys open)
Ascending(S) ==
    IF S = {} THEN {<<>>}
    ELSE LET m == CHOOSE t \in {x.timestamp : x \in S} :
                    \A x \in S : t <= x.timestamp
             G == {x \in S : x.timestamp = m}
         IN  {p \o rest : p \in Perms(G), rest \in Ascending(S \ G)}

Reverse(s) == [i \in 1..Len(s) |-> s[Len(s) + 1 - i]]

\* Descending, were .desc() missing
Descending_Missing(S) == Ascending(S)

\* ORDER BY timestamp DESC
Descending(S) == {Reverse(s) : s \in Ascending(S)}

\* .limit(n)
Take(s, n) == SubSeq(s, 1, IF Len(s) < n THEN Len(s) ELSE n)

\* CameraFilter, were the where clause never added
CameraFilter_Never(S, camera_id) == S

\* `if camera_id: query = query.where(VehicleCount.camera_id == camera_id)`
CameraFilter(S, camera_id) ==
    IF TruthyStr(camera_id) THEN {x \in S : x.camera_id = camera_id[1]} ELSE S


\* GroupRow, were total recomputed from the five categories
GroupRow_Recomputed(key, camera_id, G) ==
    [timestamp |-> key, camera_id |-> camera_id,
     car   |-> SqlSum(G, "car"),   bike |-> SqlSum(G, "bike"),
     truck |-> SqlSum(G, "truck"), bus  |-> SqlSum(G, "bus"),
     auto  |-> SqlSum(G, "auto"),
     total |-> Some(SumOf(G, "car") + SumOf(G, "bike") + SumOf(G, "truck")
                    + SumOf(G, "bus") + SumOf(G, "auto"))]

\* SELECT <key>, camera_id, SUM(car), ..., SUM(total): the raw result row
\* of the group G
GroupRow(key, camera_id, G) ==
    [timestamp |-> key, camera_id |-> camera_id,
     car   |-> SqlSum(G, "car"),   bike |-> SqlSum(G, "bike"),
     truck |-> SqlSum(G, "truck"), bus  |-> SqlSum(G, "bus"),
     auto  |-> SqlSum(G, "auto"),  total |-> SqlSum(G, "total")]

\* GROUP BY <key>, camera_id: one raw result row per non-empty group; Key
\* maps each timestamp of T to its bucket
GroupSums(T, Key) ==
    { GroupRow(k[1], k[2],
               {x \in T : Key[x.timestamp] = k[1] /\ x.camera_id = k[2]}) :
      k \in {<<Key[x.timestamp], x.camera_id>> : x \in T} }

\* VehicleCountResponse(timestamp=..., car=int(row.car) if row.car is not
\* None else 0, ...)
Formatted(row) ==
    [timestamp |-> row.timestamp, camera_id |-> row.camera_id,
     car   |-> Coalesce(row.car, 0),   bike |-> Coalesce(row.bike, 0),
     truck |-> Coalesce(row.truck, 0), bus  |-> Coalesce(row.bus, 0),
     auto  |-> Coalesce(row.auto, 0),  total |-> Coalesce(row.total, 0)]

FormattedAll(rows) == [i \in 1..Len(rows) |-> Formatted(rows[i])]

-----------------------------------------------------------------------------
(* get_secondly_data: the two statements *)

\* WHERE timestamp >= :one_minute_ago [AND camera_id = ...]
SecondlyWindow(S, one_minute_ago, camera_id) ==
    CameraFilter({x \in S : x.timestamp >= one_minute_ago}, camera_id)

\* NeedsFallback, were the test `len(results) < 60` ("fewer than expected")
NeedsFallback_Fewer(results) == Len(results) < Limit

\* if len(results) == 0
NeedsFallback(results) == Len(results) = 0

\* the primary query: every result list the database may return
SecondlyPrimary(S, one_minute_ago, camera_id) ==
    {Take(s, Limit) : s \in Descending(SecondlyWindow(S, one_minute_ago, camera_id))}

\* the fallback query: no time predicate
SecondlyFallback(S, camera_id) ==
    {Take(s, Limit) : s \in Descending(CameraFilter(S, camera_id))}

-----------------------------------------------------------------------------
(* get_hourly_data: the two statements *)

\* SELECT MIN(timestamp) ... WHERE timestamp >= CURRENT_DATE [AND camera_id = ...]
HourlyMin(S, t, camera_id) ==
    LET T == CameraFilter({x \in S : x.timestamp >= StartOfDay(t)}, camera_id)
    IN  IF T = {} THEN None
        ELSE Some(CHOOSE m \in {x.timestamp : x \in T} :
                    \A x \in T : m <= x.timestamp)

\* DATE_TRUNC('day', NOW()) + INTERVAL '21 hours'
HourlyCutoff(t) == StartOfDay(t) + CutoffHours * 3600

\* WHERE timestamp >= :start_time AND timestamp <= <cutoff> [AND camera_id
\* = ...].  end_time is bound as a parameter of the statement, whose text
\* never names :end_time.
HourlyWhere(S, start_time, end_time, t, camera_id) ==
    CameraFilter({x \in S : x.timestamp >= start_time
                            /\ x.timestamp <= HourlyCutoff(t)}, camera_id)

\* the grouped statement: every result list the database may return
HourlyQuery(S, start_time, end_time, t, camera_id) ==
    LET T == HourlyWhere(S, start_time, end_time, t, camera_id)
    IN  Ascending(GroupSums(T, [ts \in {x.timestamp : x \in T} |->
                                  StartOfHour(ts)]))

-----------------------------------------------------------------------------
(* get_daily_data *)

\* ValidInterval without its upper bound
ValidInterval_NoUpper(interval_minutes) ==
    IF interval_minutes < 1 THEN DefaultInterval ELSE interval_minutes

\* if interval_minutes < 1 or interval_minutes > 60: interval_minutes = 10
ValidInterval(interval_minutes) ==
    IF interval_minutes < 1 \/ interval_minutes > 60
    THEN DefaultInterval ELSE interval_minutes

\* TimeBucket counted from the epoch instead of from the hour
TimeBucket_Epoch(t, interval) == t - (t % (interval * 60))

\* date_trunc('hour', timestamp) + FLOOR(EXTRACT(minute FROM timestamp) /
\* :interval) * :interval * interval '1 minute'
TimeBucket(t, interval) ==
    StartOfHour(t) + ((MinuteOf(t) \div interval) * interval) * 60

\* WHERE timestamp >= :start_time AND timestamp <= :end_time [AND camera_id = ...]
DailyWhere(S, start_time, end_time, camera_id) ==
    CameraFilter({x \in S : x.timestamp >= start_time
                            /\ x.timestamp <= end_time}, camera_id)

\* the grouped statement: every result list the database may return
DailyQuery(S, interval, start_time, end_time, camera_id) ==
    LET T == DailyWhere(S, start_time, end_time, camera_id)
    IN  Ascending(GroupSums(T, [ts \in {x.timestamp : x \in T} |->
                                  TimeBucket(ts, interval)]))

\* the try block that parses start_date and end_date: the two bounds, or a
\* ValueError
ParseRange(start_date, end_date, t) ==
    LET sd == IF TruthySeq(start_date) THEN FromIsoFormat(start_date[1])
              ELSE [ok |-> TRUE, value |-> t - 86400]
        start_datetime == StartOfDay(sd.value)
        ed == IF TruthySeq(end_date) THEN FromIsoFormat(end_date[1])
              ELSE [ok |-> TRUE, value |-> start_datetime]
    IN  IF ~sd.ok THEN [ok |-> FALSE, start |-> 0, end |-> 0]
        ELSE IF ~ed.ok THEN [ok |-> FALSE, start |-> 0, end |-> 0]
        ELSE [ok |-> TRUE, start |-> start_datetime, end |-> EndOfDay(ed.value)]

-----------------------------------------------------------------------------
(* get_last_hour_summary *)

LastHourTotals(S, one_hour_ago, camera_id) ==
    LET T == CameraFilter({x \in S : x.timestamp >= one_hour_ago}, camera_id)
    IN  [hourly_totals |->
           [cars   |-> Coalesce(SqlSum(T, "car"), 0),
            bikes  |-> Coalesce(SqlSum(T, "bike"), 0),
            trucks |-> Coalesce(SqlSum(T, "truck"), 0),
            buses  |-> Coalesce(SqlSum(T, "bus"), 0),
            autos  |-> Coalesce(SqlSum(T, "auto"), 0),
            total  |-> Coalesce(SqlSum(T, "total"), 0)]]

-----------------------------------------------------------------------------
(* get_summary *)

\* the date to summarise: start_date's day, today, or a ValueError
ParseDay(start_date, t) ==
    IF TruthySeq(start_date)
    THEN LET sd == FromIsoFormat(start_date[1])
         IN  IF sd.ok THEN [ok |-> TRUE, start |-> StartOfDay(sd.value)]
             ELSE [ok |-> FALSE, start |-> 0]
    ELSE [ok |-> TRUE, start |-> StartOfDay(t)]

\* WHERE timestamp >= :today_start AND timestamp <= :today_end [AND camera_id = ...]
SummaryWhere(S, today_start, today_end, camera_id) ==
    CameraFilter({x \in S : x.timestamp >= today_start
                            /\ x.timestamp <= today_end}, camera_id)

\* the totals statement, .one()
SummaryTotals(S, today_start, today_end, camera_id) ==
    LET T == SummaryWhere(S, today_start, today_end, camera_id)
    IN  [total_cars   |-> Coalesce(SqlSum(T, "car"), 0),
         total_bikes  |-> Coalesce(SqlSum(T, "bike"), 0),
         total_trucks |-> Coalesce(SqlSum(T, "truck"), 0),
         total_buses  |-> Coalesce(SqlSum(T, "bus"), 0),
         total_autos  |-> Coalesce(SqlSum(T, "auto"), 0),
         total_all    |-> Coalesce(SqlSum(T, "total"), 0),
         record_count |-> Cardinality(T)]

\* HourlyAverages, were the aggregate SUM(total)
HourlyAverages_Sums(T) ==
    { [hour |-> h,
       num  |-> SumOf({x \in T : StartOfHour(x.timestamp) = h}, "total"),
       den  |-> 1] :
      h \in {StartOfHour(x.timestamp) : x \in T} }

\* GROUP BY date_trunc('hour', timestamp) with AVG(total), kept as the
\* fraction num / den
HourlyAverages(T) ==
    { [hour |-> h,
       num  |-> SumOf({x \in T : StartOfHour(x.timestamp) = h}, "total"),
       den  |-> Cardinality({x \in T : StartOfHour(x.timestamp) = h})] :
      h \in {StartOfHour(x.timestamp) : x \in T} }

\* ORDER BY hourly_avg DESC LIMIT 1, .first(): None, or any row of greatest
\* average
PeakHourQuery(S, today_start, today_end, camera_id) ==
    LET G == HourlyAverages(SummaryWhere(S, today_start, today_end, camera_id))
    IN  IF G = {} THEN {None}
        ELSE {Some(g) : g \in {h \in G : \A o \in G : o.num * h.den <= h.num * o.den}}

\* round() of a Decimal num / den (den > 0, num >= 0): half to even
RoundHalfEven(num, den) ==
    LET q == num \div den
        r == num % den
    IN  IF 2 * r < den THEN q
        ELSE IF 2 * r > den THEN q + 1
        ELSE IF q % 2 = 0 THEN q ELSE q + 1

\* the dictionary get_summary returns; "date" is kept as the day's number,
\* not as its ISO text
SummaryBody(today_start, result, peak_hour_result) ==
    [date |-> today_start \div 86400,
     total_vehicles |->
        [cars   |-> result.total_cars,   bikes |-> result.total_bikes,
         trucks |-> result.total_trucks, buses |-> result.total_buses,
         autos  |-> result.total_autos,  all   |-> result.total_all],
     peak_hour |-> IF peak_hour_result # None
                   THEN Some(StrfHM(peak_hour_result[1].hour)) ELSE None,
     peak_hour_count |->
        IF peak_hour_result # None /\ peak_hour_result[1].num # 0
        THEN RoundHalfEven(peak_hour_result[1].num, peak_hour_result[1].den)
        ELSE 0,
     record_count |-> result.record_count]

-----------------------------------------------------------------------------
(* Requests and responses *)

\* the camera_id values a client sends: none, the empty string, a camera
CameraParams == {None, Some(""), Some("A")}

\* the interval_minutes values a client sends
Intervals == {-5, 0, 1, 7, 10, 60, 61}

\* start_date: none, "1970-01-02", "1970-13-02" (no such month)
StartDates ==
    {None,
     Some(<<"1", "9", "7", "0", "-", "0", "1", "-", "0", "2">>),
     Some(<<"1", "9", "7", "0", "-", "1", "3", "-", "0", "2">>)}

\* end_date: none, "1970-01-03", "1970-02-30" (no such day)
EndDates ==
    {None,
     Some(<<"1", "9", "7", "0", "-", "0", "1", "-", "0", "3">>),
     Some(<<"1", "9", "7", "0", "-", "0", "2", "-", "3", "0">>)}

NoResponse == [status |-> 0, detail |-> "", body |-> <<>>]

\* raise HTTPException(status_code=..., detail=...)
HTTPException(status, detail) == [status |-> status, detail |-> detail, body |-> <<>>]

\* a handler's return value, sent with status 200
Returned(body) == [status |-> 200, detail |-> "", body |-> body]

\* A request as it arrives.  interval_minutes, start_date, end_date and
\* camera_id are the query parameters; the other fields are the handler's
\* position (pc), its sessions (indices into sessions, 0: none), its local
\* variables, the statements it has executed and its response.
Request(endpoint, camera_id, interval_minutes, start_date, end_date) ==
    [endpoint |-> endpoint, camera_id |-> camera_id,
     interval_minutes |-> interval_minutes,
     start_date |-> start_date, end_date |-> end_date,
     pc |-> "arrived", db |-> 0, session |-> 0,
     start_time |-> 0, end_time |-> 0, interval |-> 0, results |-> <<>>,
     queries |-> <<>>, pending |-> NoResponse, response |-> NoResponse]

Arrivals ==
    {Request(e, c, DefaultInterval, None, None) :
        e \in {"get_secondly_data", "get_hourly_data", "get_last_hour_summary"},
        c \in CameraParams}
    \cup {Request("get_daily_data", c, i, sd, ed) :
            c \in CameraParams, i \in Intervals, sd \in StartDates, ed \in EndDates}
    \cup {Request("get_summary", c, DefaultInterval, sd, None) :
            c \in CameraParams, sd \in StartDates}
    \cup {Request("get_cameras", None, DefaultInterval, None, None)}

\* the requests of the specification SpecPool: one per endpoint and outcome
PoolArrivals ==
    {Request(e, None, DefaultInterval, None, None) :
        e \in {"get_secondly_data", "get_hourly_data", "get_last_hour_summary",
               "get_daily_data", "get_summary", "get_cameras"}}
    \cup {Request("get_daily_data", None, DefaultInterval, sd, None) :
            sd \in StartDates \ {None}}

-----------------------------------------------------------------------------
(* Sessions *)

\* SessionLocal(): a session of request r, no transaction begun
NewSession(r) ==
    [owner |-> r, open |-> TRUE, inTxn |-> FALSE, failed |-> FALSE,
     rolledBack |-> FALSE]

\* session.execute(...): the session begins its transaction; a failing
\* statement leaves the transaction open and failed
Executed(ss, s, ok) ==
    [ss EXCEPT ![s].inTxn = TRUE, ![s].failed = @ \/ ~ok]

\* session.rollback()
RolledBack(ss, s) ==
    [ss EXCEPT ![s].inTxn = FALSE, ![s].rolledBack = TRUE]

\* session.close()
Closed(ss, s) ==
    [ss EXCEPT ![s].open = FALSE, ![s].inTxn = FALSE]

\* `except Exception as e: raise HTTPException(status_code=500,
\* detail=f"Database error: {str(e)}")` of the handlers that use db: it
\* catches every exception raised in the handler's try block
HandlerExcept(exc) == HTTPException(500, "Database error")

\* `except Exception as outer_e: raise HTTPException(status_code=500,
\* detail="Processing error")` of get_daily_data
DailyOuterExcept(exc) == HTTPException(500, "Processing error")

\* raise HTTPException(status_code=400, detail="Invalid date format. Use
\* YYYY-MM-DD")
InvalidDate == HTTPException(400, "Invalid date format. Use YYYY-MM-DD")

\* the handler ends (returns or raises): the response is fixed, get_db's
\* finally clause is still to run
Finish(q, response) == [q EXCEPT !.pc = "teardown", !.response = response]

Query(q, name) == [q EXCEPT !.queries = Append(@, name)]

-----------------------------------------------------------------------------
(* Actions *)

\* Depends(get_db): db = SessionLocal(); yield db
GetDb(r) ==
    /\ req[r].pc = "arrived"
    /\ sessions' = Append(sessions, NewSession(r))
    /\ req' = [req EXCEPT ![r].db = Len(sessions) + 1, ![r].pc = req[r].endpoint]
    /\ UNCHANGED <<store, now>>

\* get_db's finally: db.close()
CloseDb(r) ==
    /\ req[r].pc = "teardown"
    /\ sessions' = Closed(sessions, req[r].db)
    /\ req' = [req EXCEPT ![r].pc = "done"]
    /\ UNCHANGED <<store, now>>

\* get_secondly_data up to the test of len(results)
SecondlyQuery(r) ==
    /\ req[r].pc = "get_secondly_data"
    /\ \E ok \in BOOLEAN :
        /\ sessions' = Executed(sessions, req[r].db, ok)
        /\ LET q == [Query(req[r], "primary") EXCEPT !.start_time = now - 60]
           IN  IF ok
               THEN \E results \in SecondlyPrimary(store, now - 60, q.camera_id) :
                      req' = [req EXCEPT ![r] =
                                IF NeedsFallback(results)
                                THEN [q EXCEPT !.pc = "fallback_query",
                                               !.results = results]
                                ELSE Finish([q EXCEPT !.results = results],
                                            Returned(results))]
               ELSE req' = [req EXCEPT ![r] = Finish(q, HandlerExcept("execute"))]
    /\ UNCHANGED <<store, now>>

\* get_secondly_data: the fallback query and the return
SecondlyFallbackQuery(r) ==
    /\ req[r].pc = "fallback_query"
    /\ \E ok \in BOOLEAN :
        /\ sessions' = Executed(sessions, req[r].db, ok)
        /\ LET q == Query(req[r], "fallback")
           IN  IF ok
               THEN \E results \in SecondlyFallback(store, q.camera_id) :
                      req' = [req EXCEPT ![r] =
                                Finish([q EXCEPT !.results = results],
                                       Returned(results))]
               ELSE req' = [req EXCEPT ![r] = Finish(q, HandlerExcept("execute"))]
    /\ UNCHANGED <<store, now>>

\* get_hourly_data: the MIN(timestamp) statement, the early return, and
\* start_time and end_time
HourlyMinQuery(r) ==
    /\ req[r].pc = "get_hourly_data"
    /\ \E ok \in BOOLEAN :
        /\ sessions' = Executed(sessions, req[r].db, ok)
        /\ LET q == Query(req[r], "min")
               min_time_result == HourlyMin(store, now, q.camera_id)
           IN  IF ~ok
               THEN req' = [req EXCEPT ![r] = Finish(q, HandlerExcept("execute"))]
               ELSE IF min_time_result = None
               THEN req' = [req EXCEPT ![r] = Finish(q, Returned(<<>>))]
               ELSE req' = [req EXCEPT ![r] =
                              [q EXCEPT !.pc = "hourly_query",
                                        !.start_time = min_time_result[1],
                                        !.end_time = StartOfHour(now)]]
    /\ UNCHANGED <<store, now>>

\* get_hourly_data: the grouped statement and the formatted result
HourlyGroupQuery(r) ==
    /\ req[r].pc = "hourly_query"
    /\ \E ok \in BOOLEAN :
        /\ sessions' = Executed(sessions, req[r].db, ok)
        /\ LET q == Query(req[r], "hourly")
           IN  IF ok
               THEN \E result \in HourlyQuery(store, q.start_time, q.end_time,
                                              now, q.camera_id) :
                      req' = [req EXCEPT ![r] =
                                Finish([q EXCEPT !.results = result],
                                       Returned(FormattedAll(result)))]
               ELSE req' = [req EXCEPT ![r] = Finish(q, HandlerExcept("execute"))]
    /\ UNCHANGED <<store, now>>

\* get_daily_data: the dates, the interval, and session = SessionLocal()
DailyParse(r) ==
    /\ req[r].pc = "get_daily_data"
    /\ LET q == req[r]
           range == ParseRange(q.start_date, q.end_date, now)
       IN  IF ~range.ok
           THEN /\ req' = [req EXCEPT ![r] = Finish(q, DailyOuterExcept(InvalidDate))]
                /\ UNCHANGED sessions
           ELSE /\ sessions' = Append(sessions, NewSession(r))
                /\ req' = [req EXCEPT ![r] =
                             [q EXCEPT !.pc = "daily_execute",
                                       !.start_time = range.start,
                                       !.end_time = range.end,
                                       !.interval = ValidInterval(q.interval_minutes),
                                       !.session = Len(sessions) + 1]]
    /\ UNCHANGED <<store, now>>

\* get_daily_data: session.execute(query, params) and the formatted result
DailyExecute(r) ==
    /\ req[r].pc = "daily_execute"
    /\ \E ok \in BOOLEAN :
        /\ sessions' = Executed(sessions, req[r].session, ok)
        /\ LET q == Query(req[r], "daily")
           IN  IF ok
               THEN \E result \in DailyQuery(store, q.interval, q.start_time,
                                             q.end_time, q.camera_id) :
                      req' = [req EXCEPT ![r] =
                                [q EXCEPT !.pc = "daily_close",
                                          !.results = result,
                                          !.pending = Returned(FormattedAll(result))]]
               ELSE req' = [req EXCEPT ![r] = [q EXCEPT !.pc = "daily_rollback"]]
    /\ UNCHANGED <<store, now>>

\* get_daily_data: except Exception: session.rollback(); raise
\* HTTPException(500, "Database query failed")
DailyRollback(r) ==
    /\ req[r].pc = "daily_rollback"
    /\ sessions' = RolledBack(sessions, req[r].session)
    /\ req' = [req EXCEPT ![r].pc = "daily_close",
                          ![r].pending = HTTPException(500, "Database query failed")]
    /\ UNCHANGED <<store, now>>

\* get_daily_data: finally: session.close(); then the return value leaves
\* the handler, or the exception reaches the outer except clause
DailyClose(r) ==
    /\ req[r].pc = "daily_close"
    /\ sessions' = Closed(sessions, req[r].session)
    /\ req' = [req EXCEPT ![r] =
                 Finish(req[r], IF req[r].pending.status = 200
                                THEN req[r].pending
                                ELSE DailyOuterExcept(req[r].pending))]
    /\ UNCHANGED <<store, now>>

\* get_last_hour_summary
LastHourQuery(r) ==
    /\ req[r].pc = "get_last_hour_summary"
    /\ \E ok \in BOOLEAN :
        /\ sessions' = Executed(sessions, req[r].db, ok)
        /\ LET q == [Query(req[r], "last_hour") EXCEPT !.start_time = now - 3600]
           IN  req' = [req EXCEPT ![r] =
                         IF ok
                         THEN Finish(q, Returned(LastHourTotals(store, now - 3600,
                                                                q.camera_id)))
                         ELSE Finish(q, HandlerExcept("execute"))]
    /\ UNCHANGED <<store, now>>

\* get_summary: the date to summarise
SummaryParse(r) ==
    /\ req[r].pc = "get_summary"
    /\ LET q == req[r]
           day == ParseDay(q.start_date, now)
       IN  req' = [req EXCEPT ![r] =
                     IF ~day.ok
                     THEN Finish(q, HandlerExcept(InvalidDate))
                     ELSE [q EXCEPT !.pc = "summary_totals",
                                    !.start_time = day.start,
                                    !.end_time = EndOfDay(day.start)]]
    /\ UNCHANGED <<store, now, sessions>>

\* get_summary: the totals statement
SummaryTotalsQuery(r) ==
    /\ req[r].pc = "summary_totals"
    /\ \E ok \in BOOLEAN :
        /\ sessions' = Executed(sessions, req[r].db, ok)
        /\ LET q == Query(req[r], "totals")
           IN  req' = [req EXCEPT ![r] =
                         IF ok
                         THEN [q EXCEPT !.pc = "summary_peak",
                                        !.results =
                                           <<SummaryTotals(store, q.start_time,
                                                           q.end_time, q.camera_id)>>]
                         ELSE Finish(q, HandlerExcept("execute"))]
    /\ UNCHANGED <<store, now>>

\* get_summary: the peak-hour statement and the returned dictionary
SummaryPeakQuery(r) ==
    /\ req[r].pc = "summary_peak"
    /\ \E ok \in BOOLEAN :
        /\ sessions' = Executed(sessions, req[r].db, ok)
        /\ LET q == Query(req[r], "peak")
           IN  IF ok
               THEN \E peak_hour_result \in PeakHourQuery(store, q.start_time,
                                                          q.end_time, q.camera_id) :
                      req' = [req EXCEPT ![r] =
                                Finish(q, Returned(SummaryBody(q.start_time,
                                                               q.results[1],
                                                               peak_hour_result)))]
               ELSE req' = [req EXCEPT ![r] = Finish(q, HandlerExcept("execute"))]
    /\ UNCHANGED <<store, now>>

\* get_cameras.  Its statement reads "jaloli_thresholds-detections-counts",
\* which is not the table of VehicleCount: it fails, or lists whatever
\* camera identifiers that other relation holds, in ORDER BY order.
CamerasQuery(r) ==
    /\ req[r].pc = "get_cameras"
    /\ \E ok \in BOOLEAN :
        /\ sessions' = Executed(sessions, req[r].db, ok)
        /\ LET q == Query(req[r], "cameras")
           IN  IF ok
               THEN \E ids \in SUBSET {"", "A", "B"} :
                      LET camera_ids == SelectSeq(<<"", "A", "B">>,
                                                  LAMBDA c : c \in ids)
                      IN  req' = [req EXCEPT ![r] =
                                    Finish(q, Returned([cameras |-> camera_ids,
                                                        count |-> Len(camera_ids)]))]
               ELSE req' = [req EXCEPT ![r] = Finish(q, HandlerExcept("execute"))]
    /\ UNCHANGED <<store, now>>

Next ==
    \/ \E r \in DOMAIN req : GetDb(r)
    \/ \E r \in DOMAIN req : CloseDb(r)
    \/ \E r \in DOMAIN req : SecondlyQuery(r)
    \/ \E r \in DOMAIN req : SecondlyFallbackQuery(r)
    \/ \E r \in DOMAIN req : HourlyMinQuery(r)
    \/ \E r \in DOMAIN req : HourlyGroupQuery(r)
    \/ \E r \in DOMAIN req : DailyParse(r)
    \/ \E r \in DOMAIN req : DailyExecute(r)
    \/ \E r \in DOMAIN req : DailyRollback(r)
    \/ \E r \in DOMAIN req : DailyClose(r)
    \/ \E r \in DOMAIN req : LastHourQuery(r)
    \/ \E r \in DOMAIN req : SummaryParse(r)
    \/ \E r \in DOMAIN req : SummaryTotalsQuery(r)
    \/ \E r \in DOMAIN req : SummaryPeakQuery(r)
    \/ \E r \in DOMAIN req : CamerasQuery(r)

\* no detection is stamped later than the instant the request is served at
Written(S, t) == \A x \in S : x.timestamp <= t

Init ==
    /\ store \in Stores
    /\ now \in Clock
    /\ Written(store, now)
    /\ sessions = <<>>
    /\ req \in [{1} -> Arrivals]

Spec == Init /\ [][Next]_vars

\* K = MaxClients requests served concurrently, over a table of at most one
\* detection
InitPool ==
    /\ store \in {{}} \cup {{d} : d \in Detections}
    /\ now \in Clock
    /\ Written(store, now)
    /\ sessions = <<>>
    /\ req \in [1..MaxClients -> PoolArrivals]

\* the server keeps running handlers and finally clauses while one is
\* pending; every request takes finitely many steps, so each one ends
Fairness == WF_vars(Next)

SpecPool == InitPool /\ [][Next]_vars /\ Fairness

-----------------------------------------------------------------------------
(* Properties *)

\* the handler of request r has ended: its response is fixed
Responded(r) == req[r].pc \in {"teardown", "done"}

\* a date parameter that is given and is no ISO date
BadDate(opt) == TruthySeq(opt) /\ ~FromIsoFormat(opt[1]).ok

\* the sessions of request r that are open
OpenSessions(r) ==
    {s \in DOMAIN sessions : sessions[s].owner = r /\ sessions[s].open}

\* C1: on the daily and the summary endpoint, a request with a start_date
\* (daily: or end_date) that is no ISO date ends with status 400 and the
\* detail "Invalid date format. Use YYYY-MM-DD", and executes no statement.
C1_InvalidDateIsClientError ==
    \A r \in DOMAIN req :
        LET q == req[r]
        IN  /\ Responded(r)
            /\ \/ q.endpoint = "get_daily_data"
                  /\ (BadDate(q.start_date) \/ BadDate(q.end_date))
               \/ q.endpoint = "get_summary" /\ BadDate(q.start_date)
            => /\ q.response.status = 400
               /\ q.response.detail = "Invalid date format. Use YYYY-MM-DD"
               /\ q.queries = <<>>

\* C2: when a request is over, every session it acquired is closed, and a
\* session on which a statement failed was rolled back explicitly before
\* it was closed.
C2_ReleasedWithRollback ==
    \A s \in DOMAIN sessions :
        /\ req[sessions[s].owner].pc = "done" => ~sessions[s].open
        /\ ~sessions[s].open /\ sessions[s].failed => sessions[s].rolledBack

\* C3: a request never holds more than one open session, so that K
\* concurrent requests hold at most K open sessions.
C3_OneSessionPerRequest ==
    /\ \A r \in DOMAIN req : Cardinality(OpenSessions(r)) <= 1
    /\ Cardinality({s \in DOMAIN sessions : sessions[s].open})
          <= Cardinality(DOMAIN req)

\* the records a request's camera_id selects: all of them unless camera_id
\* is a non-empty string
Selected(q) ==
    {x \in store : TruthyStr(q.camera_id) => x.camera_id = q.camera_id[1]}

\* the records of the window of the secondly request q
InWindow(q) == {x \in Selected(q) : x.timestamp >= q.start_time}

\* C4: the secondly endpoint issues its fallback query only after a primary
\* query that returned no row, and then exactly once; a response built from
\* a non-empty window is a result of the primary query alone, and when the
\* fallback finds no row either the response is an empty success.
C4_FallbackIffPrimaryEmpty ==
    \A r \in DOMAIN req :
        LET q == req[r]
        IN  q.endpoint = "get_secondly_data" =>
            /\ q.queries \in {<<>>, <<"primary">>, <<"primary", "fallback">>}
            /\ q.pc = "fallback_query" => q.queries = <<"primary">>
            /\ (q.pc = "fallback_query" \/ q.queries = <<"primary", "fallback">>)
                  => InWindow(q) = {}
            /\ Responded(r) /\ q.response.status = 200 =>
                  IF InWindow(q) # {}
                  THEN /\ q.queries = <<"primary">>
                       /\ q.response.body \in
                             SecondlyPrimary(store, q.start_time, q.camera_id)
                  ELSE /\ q.queries = <<"primary", "fallback">>
                       /\ Selected(q) = {} => q.response.body = <<>>

\* a secondly request answered from its fallback query with stale records
C4_Witness ==
    \E r \in DOMAIN req :
        /\ req[r].endpoint = "get_secondly_data"
        /\ Responded(r) /\ req[r].response.status = 200
        /\ req[r].queries = <<"primary", "fallback">>
        /\ Len(req[r].response.body) > 0

\* C5: every bucket of an hourly response sums exactly the selected records
\* of its hour and camera that are stamped today, not after the start of
\* the current hour and not after 21:00 of today.
C5_HourlyRangeEnd ==
    \A r \in DOMAIN req :
        LET q == req[r]
            InRange == {x \in Selected(q) :
                          /\ x.timestamp >= StartOfDay(now)
                          /\ x.timestamp <= StartOfHour(now)
                          /\ x.timestamp <= StartOfDay(now) + 21 * 3600}
        IN  q.endpoint = "get_hourly_data" /\ Responded(r)
               /\ q.response.status = 200 =>
            \A i \in DOMAIN q.response.body :
                LET b == q.response.body[i]
                    G == {x \in InRange : /\ StartOfHour(x.timestamp) = b.timestamp
                                          /\ x.camera_id = b.camera_id}
                IN  /\ G # {}
                    /\ \A f \in {"car", "bike", "truck", "bus", "auto", "total"} :
                          b[f] = SumOf(G, f)

\* the width the daily request q asks for, 10 when out of [1, 60]
AskedWidth(q) ==
    IF q.interval_minutes >= 1 /\ q.interval_minutes <= 60
    THEN q.interval_minutes ELSE 10

\* C6: a daily request whose interval_minutes is outside [1, 60] runs with
\* width 10 and answers as the same request with interval_minutes = 10; a
\* value inside [1, 60] is the width; the request fails only on a bad date
\* or a failed statement.
C6_IntervalClamped ==
    \A r \in DOMAIN req :
        LET q == req[r]
        IN  q.endpoint = "get_daily_data" =>
            /\ q.pc \in {"daily_execute", "daily_rollback", "daily_close"}
                  => q.interval = AskedWidth(q)
            /\ Responded(r) /\ q.response.status = 200 =>
                  \E result \in DailyQuery(store, AskedWidth(q), q.start_time,
                                           q.end_time, q.camera_id) :
                      q.response.body = FormattedAll(result)
            /\ Responded(r) /\ q.response.status # 200 =>
                  \/ BadDate(q.start_date)
                  \/ BadDate(q.end_date)
                  \/ sessions[q.session].failed

\* a daily request with interval_minutes = 61 answered with two buckets of
\* one hour
C6_Witness ==
    \E r \in DOMAIN req :
        /\ req[r].endpoint = "get_daily_data" /\ req[r].interval_minutes = 61
        /\ Responded(r) /\ req[r].response.status = 200
        /\ \E i, j \in DOMAIN req[r].response.body :
             /\ req[r].response.body[i].timestamp # req[r].response.body[j].timestamp
             /\ StartOfHour(req[r].response.body[i].timestamp)
                  = StartOfHour(req[r].response.body[j].timestamp)

\* the secondly, hourly or daily request r is answered with status 200
Answered(r) ==
    /\ req[r].endpoint \in {"get_secondly_data", "get_hourly_data", "get_daily_data"}
    /\ Responded(r) /\ req[r].response.status = 200

\* the response to request r is one the table restricted to the records
\* Own gives without any camera filter
AnswerOver(r, Own) ==
    LET q == req[r]
        body == q.response.body
    IN  CASE q.endpoint = "get_secondly_data" ->
               body \in (IF "fallback" \in {q.queries[i] : i \in DOMAIN q.queries}
                         THEN SecondlyFallback(Own, None)
                         ELSE SecondlyPrimary(Own, q.start_time, None))
          [] q.endpoint = "get_hourly_data" ->
               LET m == HourlyMin(Own, now, None)
               IN  IF m = None THEN body = <<>>
                   ELSE \E result \in HourlyQuery(Own, m[1], q.end_time, now, None) :
                          body = FormattedAll(result)
          [] q.endpoint = "get_daily_data" ->
               \E result \in DailyQuery(Own, q.interval, q.start_time,
                                        q.end_time, None) :
                   body = FormattedAll(result)

\* C7 (as stated): a response to camera_id = A, A a camera identifier of the
\* table, holds no record or bucket of another camera.
C7_CameraFilterAnyId ==
    \A r \in DOMAIN req :
        Answered(r) /\ req[r].camera_id # None
           /\ (\E x \in store : x.camera_id = req[r].camera_id[1]) =>
        \A i \in DOMAIN req[r].response.body :
            req[r].response.body[i].camera_id = req[r].camera_id[1]

\* C7 (amended): a secondly, hourly or daily response to a non-empty
\* camera_id = A holds only records or buckets of camera A, and is the
\* response the table without the records of the other cameras gives: no
\* record of another camera contributes to it.
C7_CameraFilterNonEmptyId ==
    \A r \in DOMAIN req :
        Answered(r) /\ req[r].camera_id # None /\ req[r].camera_id[1] # "" =>
        /\ \A i \in DOMAIN req[r].response.body :
              req[r].response.body[i].camera_id = req[r].camera_id[1]
        /\ AnswerOver(r, {x \in store : x.camera_id = req[r].camera_id[1]})

\* a non-empty response to camera_id = "A" over a table that also holds a
\* record of another camera in the daily range
C7_Witness ==
    \E r \in DOMAIN req :
        /\ req[r].endpoint = "get_daily_data" /\ Answered(r)
        /\ req[r].camera_id = Some("A")
        /\ Len(req[r].response.body) > 0
        /\ \E x \in store : /\ x.camera_id # "A"
                            /\ x.timestamp >= req[r].start_time
                            /\ x.timestamp <= req[r].end_time

\* the records S lie in one 10-minute bucket of one hour
OneWindow(S) ==
    \A x, y \in S :
        /\ StartOfHour(x.timestamp) = StartOfHour(y.timestamp)
        /\ MinuteOf(x.timestamp) \div 10 = MinuteOf(y.timestamp) \div 10

\* the daily request r, with interval_minutes = 10, is answered over a
\* table of N >= 1 records that lie in one 10-minute window inside its
\* date range
OneWindowAnswered(r) ==
    /\ req[r].endpoint = "get_daily_data" /\ req[r].interval_minutes = 10
    /\ Responded(r) /\ req[r].response.status = 200
    /\ store # {} /\ OneWindow(store)
    /\ \A x \in store : /\ x.timestamp >= req[r].start_time
                        /\ x.timestamp <= req[r].end_time

\* the response to r is one bucket that holds, field by field, the sum of
\* the table's records
OneBucketOfSums(r) ==
    /\ Len(req[r].response.body) = 1
    /\ \A f \in {"car", "bike", "truck", "bus", "auto", "total"} :
          req[r].response.body[1][f] = SumOf(store, f)

\* C8 (as stated): N >= 1 records of one 10-minute window, asked for
\* without a camera filter, give exactly one daily bucket (interval_minutes
\* = 10) whose six fields are the sums of the N records' fields.
C8_OneBucket ==
    \A r \in DOMAIN req :
        OneWindowAnswered(r) /\ ~TruthyStr(req[r].camera_id) => OneBucketOfSums(r)

\* C8 (amended): N >= 1 records of one camera and one 10-minute window,
\* asked for without a camera filter or with that camera's, give exactly
\* one daily bucket whose six fields are the sums of the N records' fields,
\* total being the sum of the stored totals.
C8_OneBucketOneCamera ==
    \A r \in DOMAIN req :
        /\ OneWindowAnswered(r)
        /\ \E c \in {x.camera_id : x \in store} :
             /\ \A x \in store : x.camera_id = c
             /\ TruthyStr(req[r].camera_id) => req[r].camera_id[1] = c
        => OneBucketOfSums(r)

\* two records of camera "A" in one window, one with a stored total that is
\* not the sum of its categories, answered as one bucket
C8_Witness ==
    \E r \in DOMAIN req :
        /\ OneWindowAnswered(r)
        /\ Cardinality(store) = 2
        /\ \A x \in store : x.camera_id = "A"
        /\ \E x \in store : x.total # x.car + x.bike + x.truck + x.bus + x.auto
        /\ Len(req[r].response.body) = 1

\* the records of the day the summary request q covers
OfDay(q) ==
    {x \in Selected(q) : x.timestamp >= q.start_time /\ x.timestamp <= q.end_time}

\* C9: a summary whose statements do not fail is a success; over no record
\* it has every total 0, peak_hour absent, peak_hour_count 0 and
\* record_count 0; over records it counts the records, and its peak_hour is
\* an hour of the day whose average stored total no other hour of the day
\* exceeds.
C9_SummaryPeakAndCount ==
    \A r \in DOMAIN req :
        LET q == req[r]
            body == q.response.body
            T == OfDay(q)
            Hour(h) == {x \in T : StartOfHour(x.timestamp) = h}
        IN  q.endpoint = "get_summary" /\ Responded(r) =>
            /\ (~BadDate(q.start_date) /\ ~sessions[q.db].failed
                  => q.response.status = 200)
            /\ q.response.status = 200 =>
               IF T = {}
               THEN /\ body.total_vehicles =
                         [cars |-> 0, bikes |-> 0, trucks |-> 0, buses |-> 0,
                          autos |-> 0, all |-> 0]
                    /\ body.peak_hour = None
                    /\ body.peak_hour_count = 0
                    /\ body.record_count = 0
               ELSE /\ body.record_count = Cardinality(T)
                    /\ body.peak_hour # None
                    /\ \E h \in {StartOfHour(x.timestamp) : x \in T} :
                         /\ body.peak_hour[1] = StrfHM(h)
                         /\ \A o \in {StartOfHour(x.timestamp) : x \in T} :
                               SumOf(Hour(o), "total") * Cardinality(Hour(h))
                                  <= SumOf(Hour(h), "total") * Cardinality(Hour(o))

\* a summary over a day with two hours of records, its peak the hour of the
\* smaller sum and the larger average
C9_Witness ==
    \E r \in DOMAIN req :
        LET q == req[r]
            T == OfDay(q)
            Hour(h) == {x \in T : StartOfHour(x.timestamp) = h}
        IN  /\ q.endpoint = "get_summary" /\ Responded(r)
            /\ q.response.status = 200
            /\ q.response.body.record_count > 2
            /\ \E h, o \in {StartOfHour(x.timestamp) : x \in T} :
                 /\ q.response.body.peak_hour = Some(StrfHM(h))
                 /\ SumOf(Hour(h), "total") < SumOf(Hour(o), "total")

\* the candidates of the secondly request q: the selected records of its
\* window, or all selected records once the fallback query ran
Candidates(q) ==
    IF q.queries = <<"primary", "fallback">> THEN Selected(q) ELSE InWindow(q)

\* C10: a secondly response holds at most 60 records, in descending
\* timestamp order, each a candidate and none twice; it holds 60 of them or
\* all, and no candidate left out is stamped later than a returned one.
C10_SecondlyMostRecent ==
    \A r \in DOMAIN req :
        LET q == req[r]
            body == q.response.body
            Rows == {body[i] : i \in DOMAIN body}
        IN  q.endpoint = "get_secondly_data" /\ Responded(r)
               /\ q.response.status = 200 =>
            /\ Len(body) <= 60
            /\ Len(body) = 60 \/ Rows = Candidates(q)
            /\ Rows \subseteq Candidates(q)
            /\ Cardinality(Rows) = Len(body)
            /\ \A i, j \in DOMAIN body :
                  i < j => body[i].timestamp >= body[j].timestamp
            /\ \A o \in Candidates(q) \ Rows : \A x \in Rows :
                  o.timestamp <= x.timestamp

\* a secondly response of 60 records out of more than 60 candidates
C10_Witness ==
    \E r \in DOMAIN req :
        /\ req[r].endpoint = "get_secondly_data" /\ Responded(r)
        /\ req[r].response.status = 200
        /\ Len(req[r].response.body) = 60
        /\ Cardinality(Candidates(req[r])) > 60

\* the records the daily request q asks for: those of its date range, of
\* the camera it names when it names one
InRange(q) ==
    {x \in store : /\ x.timestamp >= q.start_time
                   /\ x.timestamp <= q.end_time
                   /\ (TruthyStr(q.camera_id) => x.camera_id = q.camera_id[1])}

\* k is the start of the w-minute bucket of the instant t: in the hour of
\* t a whole number of widths after the hour, at or before t, and t less
\* than one width after it
StartsBucketOf(k, t, w) ==
    /\ StartOfHour(k) = StartOfHour(t)
    /\ (k - StartOfHour(k)) % (w * 60) = 0
    /\ k <= t /\ t < k + w * 60

\* the record x is of the camera of the bucket b and b starts its w-minute
\* bucket
Contributes(x, b, w) ==
    x.camera_id = b.camera_id /\ StartsBucketOf(b.timestamp, x.timestamp, w)

RECURSIVE FieldTotal(_, _)
\* the sum of field f over the buckets of the list body
FieldTotal(body, f) ==
    IF body = <<>> THEN 0 ELSE Head(body)[f] + FieldTotal(Tail(body), f)

\* C11: a daily response of effective width w in [1, 60] partitions the
\* records of the date range (and camera filter): every record lies in
\* exactly one returned bucket, the one of its camera_id that starts at
\* its hour plus floor(minute / w) * w minutes; the buckets' (start,
\* camera_id) keys are pairwise distinct, each start is at or before its
\* records' timestamps and in their hour, no bucket is empty, the starts
\* are in non-decreasing order, and each field summed over the buckets is
\* that field summed over the records.
C11_DailyBucketsPartition ==
    \A r \in DOMAIN req :
        LET q == req[r]
            w == AskedWidth(q)
            body == q.response.body
            R == InRange(q)
        IN  q.endpoint = "get_daily_data" /\ Responded(r)
               /\ q.response.status = 200 =>
            /\ w >= 1 /\ w <= 60
            /\ \A x \in R :
                  Cardinality({i \in DOMAIN body : Contributes(x, body[i], w)}) = 1
            /\ \A i, j \in DOMAIN body :
                  i # j => \/ body[i].timestamp # body[j].timestamp
                           \/ body[i].camera_id # body[j].camera_id
            /\ \A i \in DOMAIN body :
                  LET G == {x \in R : Contributes(x, body[i], w)}
                  IN  /\ G # {}
                      /\ \A f \in {"car", "bike", "truck", "bus", "auto", "total"} :
                            body[i][f] = SumOf(G, f)
            /\ \A i, j \in DOMAIN body :
                  i < j => body[i].timestamp <= body[j].timestamp
            /\ \A f \in {"car", "bike", "truck", "bus", "auto", "total"} :
                  FieldTotal(body, f) = SumOf(R, f)

\* a daily response of width 7, which does not divide 60: the last bucket
\* of an hour, starting at minute 56, and a bucket of more than one record
C11_Witness ==
    \E r \in DOMAIN req :
        LET q == req[r]
            body == q.response.body
        IN  /\ q.endpoint = "get_daily_data" /\ Responded(r)
            /\ q.response.status = 200 /\ q.interval_minutes = 7
            /\ \E i \in DOMAIN body : MinuteOf(body[i].timestamp) = 56
            /\ \E j \in DOMAIN body :
                 Cardinality({x \in InRange(q) :
                                Contributes(x, body[j], 7)}) > 1

=============================================================================
